---- MODULE Spec2Model ----
(***************************************************************************)
(* Consent-bound release control of core-services: the consent store and   *)
(* GDPR token service (services/gdpr/gdprTokenService), the policy         *)
(* decision point (services/pdp-production), the policy enforcement point  *)
(* (services/pep), the PDF signing step (services/email/pdfSigningService) *)
(* and the ABAC send controller (controllers/email/abacSend).              *)
(*                                                                         *)
(* Strings that the code inspects (attachment names and paths, e-mail      *)
(* addresses, subject, body) are sequences of one-character strings.       *)
(* Time is counted in clock ticks; one hour is Hour ticks.                 *)
(***************************************************************************)
EXTENDS Integers, Sequences, FiniteSets, TLC

\* ------------------------------------------------------------------------
\* Bounds of the model
\* ------------------------------------------------------------------------
Hour == 2
MaxTokens == 1
MaxTime == Hour + 1
\* number of records in the stores that cleanup() is applied to
StoreSize == 2

\* ------------------------------------------------------------------------
\* Program constants
\* ------------------------------------------------------------------------
DefaultExpiryHours == 24

\* undefined / a value that is not a string
NoValue == "<undefined>"

\* ------------------------------------------------------------------------
\* String helpers (String.prototype.toLowerCase / endsWith / replace)
\* ------------------------------------------------------------------------
LowerChar(c) ==
    CASE c = "P" -> "p"
      [] c = "D" -> "d"
      [] c = "F" -> "f"
      [] c = "B" -> "b"
      [] c = "S" -> "s"
      [] OTHER -> c

toLowerCase(s) == [i \in 1..Len(s) |-> LowerChar(s[i])]

endsWith(s, suffix) ==
    /\ Len(s) >= Len(suffix)
    /\ SubSeq(s, Len(s) - Len(suffix) + 1, Len(s)) = suffix

DotPdf == <<".", "p", "d", "f">>
SignedPdf == <<"_", "s", "i", "g", "n", "e", "d", ".", "p", "d", "f">>

\* faulty variant: the suffix is inserted and the extension kept as written
replacePdfExtKeepCase(s) ==
    IF endsWith(toLowerCase(s), DotPdf)
    THEN SubSeq(s, 1, Len(s) - Len(DotPdf))
             \o SubSeq(SignedPdf, 1, Len(SignedPdf) - Len(DotPdf))
             \o SubSeq(s, Len(s) - Len(DotPdf) + 1, Len(s))
    ELSE s

\* faulty variant: the extension is matched case-sensitively
replacePdfExtCaseSensitive(s) ==
    IF endsWith(s, DotPdf)
    THEN SubSeq(s, 1, Len(s) - Len(DotPdf)) \o SignedPdf
    ELSE s

\* s.replace(/\.pdf$/i, '_signed.pdf')
replacePdfExt(s) ==
    IF endsWith(toLowerCase(s), DotPdf)
    THEN SubSeq(s, 1, Len(s) - Len(DotPdf)) \o SignedPdf
    ELSE s

\* ------------------------------------------------------------------------
\* JSON values: [k |-> "str", v |-> characters], [k |-> "arr", v |-> items],
\* [k |-> "obj", v |-> sequence of <<key, value>> in insertion order]
\* ------------------------------------------------------------------------
JStr(s) == [k |-> "str", v |-> s]
JArr(items) == [k |-> "arr", v |-> items]
JObj(pairs) == [k |-> "obj", v |-> pairs]

\* Array.prototype.sort() on the keys that occur in payloads (code unit order)
KeyRank(key) ==
    CASE key = "attachments" -> 1
      [] key = "body" -> 2
      [] key = "classification" -> 3
      [] key = "name" -> 4
      [] key = "path" -> 5
      [] key = "subject" -> 6
      [] key = "to" -> 7

RECURSIVE InsertByKey(_, _)
InsertByKey(pair, sorted) ==
    IF sorted = <<>> THEN <<pair>>
    ELSE IF KeyRank(pair[1]) < KeyRank(Head(sorted)[1])
         THEN <<pair>> \o sorted
         ELSE <<Head(sorted)>> \o InsertByKey(pair, Tail(sorted))

RECURSIVE SortPairs(_)
SortPairs(pairs) ==
    IF pairs = <<>> THEN <<>>
    ELSE InsertByKey(Head(pairs), SortPairs(Tail(pairs)))

\* faulty variant: the objects inside arrays are left as they are
RECURSIVE sortObjectTopLevel(_)
sortObjectTopLevel(obj) ==
    IF obj.k = "obj"
    THEN JObj(SortPairs([i \in 1..Len(obj.v) |->
                           <<obj.v[i][1], sortObjectTopLevel(obj.v[i][2])>>]))
    ELSE obj

RECURSIVE sortObjectRecursively(_)
sortObjectRecursively(obj) ==
    IF obj.k = "arr"
    THEN JArr([i \in 1..Len(obj.v) |-> sortObjectRecursively(obj.v[i])])
    ELSE IF obj.k = "obj"
    THEN JObj(SortPairs([i \in 1..Len(obj.v) |->
                           <<obj.v[i][1], sortObjectRecursively(obj.v[i][2])>>]))
    ELSE obj

\* createHash('sha256').update(text).digest('hex'), taken to be collision free:
\* the digest is identified by the text it was computed from
sha256(text) == [digest |-> text]

\* JSON.stringify is one-to-one on these values: the value stands for its text
generatePayloadHash(data) == sha256(sortObjectRecursively(data))

\* ------------------------------------------------------------------------
\* Input domains
\* ------------------------------------------------------------------------
EmailA == <<"a", "@", "x">>
EmailB == <<"b", "@", "x">>
NotAnEmail == <<"a", "x">>
SubjectS == <<"S">>
BodyB == <<"B">>
BodyB2 == <<"B", "2">>

Purposes == {"email_notification", "marketing"}

\* an attachment list is [present |-> BOOLEAN, items |-> sequence of [name, path]]
NoAttachments == [present |-> FALSE, items |-> <<>>]
Attachments(items) == [present |-> TRUE, items |-> items]

Token(n) == <<"gdpr", n>>
UnknownToken == <<"gdpr", 0>>
NoToken == <<>>

\* ------------------------------------------------------------------------
\* State
\* ------------------------------------------------------------------------
VARIABLES
    pdpModule,       \* the module that pep.ts's import of './pdp-production' resolves to
    consents,        \* ConsentStore.consents: token -> GDPRConsentRecord
    nextToken,       \* number of tokens createUniqueToken has produced, plus one
    now,             \* the clock read by new Date()
    lastValidation,  \* the latest GET /gdpr/validate-token call: request, clock readings, store before, result
    run,             \* the abacSend request being handled
    hashed           \* two payloads handed to generatePayloadHash and what it returned for them

vars == <<pdpModule, consents, nextToken, now, lastValidation, run, hashed>>

\* ------------------------------------------------------------------------
\* ConsentStore
\* ------------------------------------------------------------------------
NoHash == <<>>

save(store, record) ==
    [t \in DOMAIN store \cup {record.token} |->
        IF t = record.token THEN record ELSE store[t]]

has(store, token) == token \in DOMAIN store

\* faulty variant: a token with no record gets a record that holds the signed
\* hash only
storeUpdateSignedHashUpsert(store, token, signed_hash) ==
    [ok |-> TRUE,
     store |-> IF has(store, token)
               THEN [store EXCEPT ![token].signed_hash = <<signed_hash>>]
               ELSE save(store, [token |-> token, signed_hash |-> <<signed_hash>>])]

storeUpdateSignedHash(store, token, signed_hash) ==
    IF has(store, token)
    THEN [ok |-> TRUE, store |-> [store EXCEPT ![token].signed_hash = <<signed_hash>>]]
    ELSE [ok |-> FALSE, store |-> store]

isExpired(record, t) == record.expires_at < t

\* faulty variant: a record that expires at this very instant is deleted too
cleanupInclusive(store, t) ==
    [tok \in {x \in DOMAIN store : store[x].expires_at > t} |-> store[tok]]

cleanup(store, t) ==
    [tok \in {x \in DOMAIN store : ~isExpired(store[x], t)} |-> store[tok]]

getStats(store, t) ==
    [total |-> Cardinality(DOMAIN store),
     active |-> Cardinality({x \in DOMAIN store : ~isExpired(store[x], t)}),
     expired |-> Cardinality({x \in DOMAIN store : isExpired(store[x], t)})]

\* ------------------------------------------------------------------------
\* GDPRTokenService
\* ------------------------------------------------------------------------
\* request.expires_in_hours || 24 (0 also stands for an absent value)
effectiveHours(expires_in_hours) ==
    IF expires_in_hours = 0 THEN DefaultExpiryHours ELSE expires_in_hours

\* expiresAt.setHours(expiresAt.getHours() + hours): the hours are added to the
\* local time of day. offsetChange is the change of the zone's UTC offset
\* between the two instants, in hours: 0 without a daylight-saving transition,
\* -1 across the end of summer time, 1 across its start. A local time that the
\* start of summer time skips is read with the offset before the transition.
setHoursLater(t, hours, offsetChange) ==
    IF offsetChange = 1 /\ hours < 2
    THEN t + hours * Hour
    ELSE t + (hours - offsetChange) * Hour

\* generateToken on a server whose zone changes its offset by offsetChange
\* between the issuance and the expiry
generateTokenInZone(request, t, n, offsetChange) ==
    [token |-> Token(n),
     original_hash |-> request.payload_hash,
     signed_hash |-> NoHash,
     subject |-> request.recipient_email,
     purpose |-> request.purpose,
     created_at |-> t,
     expires_at |-> setHoursLater(t, effectiveHours(request.expires_in_hours), offsetChange)]

\* generateToken with no daylight-saving transition before the expiry
generateToken(request, t, n) == generateTokenInZone(request, t, n, 0)

ReasonNotFound == "Invalid or expired GDPR token - no consent record found"
ReasonExpired == "GDPR consent has expired"
ReasonHashMismatch == "Payload hash does not match registered consent"
ReasonSubjectMismatch == "Subject mismatch"
ReasonPurposeMismatch == "Purpose mismatch"
ReasonValid == "Consent valid and policy conditions met"

Deny(reason) == [valid |-> FALSE, reason |-> reason, hash_type |-> NoValue]

\* faulty variant: the hash check ignores the signed hash
checkRecordOriginalOnly(record, request, t) ==
    LET originalMatch == record.original_hash = request.payload_hash
    IN  IF isExpired(record, t) THEN Deny(ReasonExpired)
        ELSE IF ~originalMatch THEN Deny(ReasonHashMismatch)
        ELSE IF record.subject # request.recipient_email THEN Deny(ReasonSubjectMismatch)
        ELSE IF request.purpose # NoValue /\ record.purpose # request.purpose
             THEN Deny(ReasonPurposeMismatch)
        ELSE [valid |-> TRUE, reason |-> ReasonValid, hash_type |-> "original"]

\* faulty variant: the hash check denies unless both hashes match
checkRecordBothHashes(record, request, t) ==
    LET originalMatch == record.original_hash = request.payload_hash
        signedMatch == record.signed_hash = <<request.payload_hash>>
    IN  IF isExpired(record, t) THEN Deny(ReasonExpired)
        ELSE IF ~originalMatch \/ ~signedMatch THEN Deny(ReasonHashMismatch)
        ELSE IF record.subject # request.recipient_email THEN Deny(ReasonSubjectMismatch)
        ELSE IF request.purpose # NoValue /\ record.purpose # request.purpose
             THEN Deny(ReasonPurposeMismatch)
        ELSE [valid |-> TRUE, reason |-> ReasonValid,
              hash_type |-> IF originalMatch THEN "original" ELSE "signed"]

\* the checks of validateToken on the record it got from the store;
\* t is the clock at the expiry check
checkRecord(record, request, t) ==
    LET originalMatch == record.original_hash = request.payload_hash
        signedMatch == record.signed_hash = <<request.payload_hash>>
    IN  IF isExpired(record, t) THEN Deny(ReasonExpired)
        ELSE IF ~originalMatch /\ ~signedMatch THEN Deny(ReasonHashMismatch)
        ELSE IF record.subject # request.recipient_email THEN Deny(ReasonSubjectMismatch)
        ELSE IF request.purpose # NoValue /\ record.purpose # request.purpose
             THEN Deny(ReasonPurposeMismatch)
        ELSE [valid |-> TRUE, reason |-> ReasonValid,
              hash_type |-> IF originalMatch THEN "original" ELSE "signed"]

\* faulty variant: a successful validation consumes the consent
validateTokenSingleUse(store, request, t1, t2) ==
    LET cleaned == cleanup(store, t1)
        result == IF ~has(cleaned, request.token)
                  THEN Deny(ReasonNotFound)
                  ELSE checkRecord(cleaned[request.token], request, t2)
    IN  [store |-> IF result.valid
                   THEN [cleaned EXCEPT ![request.token].original_hash =
                                            sha256(JStr(<<"u", "s", "e", "d">>))]
                   ELSE cleaned,
         result |-> result]

\* validateToken: t1 is the clock read by cleanup(), t2 >= t1 the clock read by
\* the expiry check; the result carries the store as the call leaves it
validateToken(store, request, t1, t2) ==
    LET cleaned == cleanup(store, t1)
    IN  [store |-> cleaned,
         result |-> IF ~has(cleaned, request.token)
                    THEN Deny(ReasonNotFound)
                    ELSE checkRecord(cleaned[request.token], request, t2)]

\* ------------------------------------------------------------------------
\* Policy decision point: the two modules of the repository that carry the
\* path services/pdp-production.ts
\* ------------------------------------------------------------------------
ReasonBypassed == "PHASE 1: GDPR validation bypassed"

\* services/pdp-production.ts as found under src/services: always allows
evaluatePolicyBypass(store, attributes, t1, t2) ==
    [store |-> store,
     decision |-> [allow |-> TRUE, reason |-> ReasonBypassed, hash_type |-> "bypassed"]]

\* services/pdp-production.ts with the validation enabled
evaluatePolicyProduction(store, attributes, t1, t2) ==
    IF attributes.gdpr_token = <<>>
    THEN [store |-> store,
          decision |-> [allow |-> FALSE, reason |-> "Missing GDPR token", hash_type |-> NoValue]]
    ELSE IF attributes.subject = <<>>
    THEN [store |-> store,
          decision |-> [allow |-> FALSE, reason |-> "Missing subject email", hash_type |-> NoValue]]
    ELSE LET v == validateToken(store,
                                [token |-> attributes.gdpr_token,
                                 payload_hash |-> attributes.payload_hash,
                                 recipient_email |-> attributes.subject,
                                 purpose |-> attributes.purpose],
                                t1, t2)
         IN  [store |-> v.store,
              decision |-> [allow |-> v.result.valid,
                            reason |-> v.result.reason,
                            hash_type |-> v.result.hash_type]]

evaluatePolicy(module, store, attributes, t1, t2) ==
    IF module = "bypass"
    THEN evaluatePolicyBypass(store, attributes, t1, t2)
    ELSE evaluatePolicyProduction(store, attributes, t1, t2)

\* ------------------------------------------------------------------------
\* Policy enforcement point (services/pep.ts)
\* ------------------------------------------------------------------------
SubjectMaxLength == 500

\* z.string().email(): a local part, an @ and a domain
IsEmail(s) == \E i \in 2..(Len(s) - 1) : s[i] = "@"

EmailPayloadSchemaOk(payload) ==
    /\ IsEmail(payload.to)
    /\ Len(payload.subject) >= 1 /\ Len(payload.subject) <= SubjectMaxLength
    /\ Len(payload.body) >= 1
    /\ \A i \in 1..Len(payload.attachments.items) :
          /\ Len(payload.attachments.items[i].name) >= 1
          /\ Len(payload.attachments.items[i].path) >= 1

AttachmentJson(a) == JObj(<< <<"name", JStr(a.name)>>, <<"path", JStr(a.path)>> >>)

AttachmentsJson(atts) == JArr([i \in 1..Len(atts.items) |-> AttachmentJson(atts.items[i])])

\* validation.data: the keys of the schema, in the order of the schema; keys
\* the schema does not name (classification, gdpr_token, ...) are stripped
EmailPayloadSchemaData(payload) ==
    JObj(<< <<"to", JStr(payload.to)>>,
            <<"subject", JStr(payload.subject)>>,
            <<"body", JStr(payload.body)>> >>
         \o (IF payload.attachments.present
             THEN << <<"attachments", AttachmentsJson(payload.attachments)>> >>
             ELSE <<>>))

ReasonSchema == "Schema validation failed"

\* validation.data.email_payload of GDPRTokenRequestSchema (routes/gdprRoutes.ts)
TokenRequestPayloadData(payload) ==
    JObj(<< <<"to", JStr(payload.to)>>,
            <<"subject", JStr(payload.subject)>>,
            <<"body", JStr(payload.body)>> >>
         \o (IF payload.classification # NoValue
             THEN << <<"classification", JStr(<<payload.classification>>)>> >>
             ELSE <<>>)
         \o (IF payload.attachments.present
             THEN << <<"attachments", AttachmentsJson(payload.attachments)>> >>
             ELSE <<>>))

\* steps 2 to 5 of enforceEmailPolicy: hash the validated payload and consult
\* the PDP
policyDecision(module, store, payload, gdpr_token, t1, t2) ==
    LET hash == generatePayloadHash(EmailPayloadSchemaData(payload))
        d == evaluatePolicy(module, store,
                            [gdpr_token |-> gdpr_token,
                             payload_hash |-> hash,
                             subject |-> payload.to,
                             purpose |-> "email_notification"],
                            t1, t2)
    IN  [allowed |-> d.decision.allow, reason |-> d.decision.reason,
         hash |-> <<hash>>, store |-> d.store, pdpCalls |-> 1]

\* faulty variant: the schema result is looked at only after the PDP has been consulted
enforceEmailPolicyLateSchema(module, store, payload, gdpr_token, t1, t2) ==
    LET r == policyDecision(module, store, payload, gdpr_token, t1, t2)
    IN  IF ~EmailPayloadSchemaOk(payload)
        THEN [r EXCEPT !.allowed = FALSE, !.reason = ReasonSchema]
        ELSE r

\* enforceEmailPolicy: the outcome, the store as the PDP call leaves it, and
\* the number of PDP calls made
enforceEmailPolicy(module, store, payload, gdpr_token, t1, t2) ==
    IF ~EmailPayloadSchemaOk(payload)
    THEN [allowed |-> FALSE, reason |-> ReasonSchema, hash |-> <<>>,
          store |-> store, pdpCalls |-> 0]
    ELSE policyDecision(module, store, payload, gdpr_token, t1, t2)

\* ------------------------------------------------------------------------
\* Classification control resolver (types/iso27001, getSecurityControls)
\* ------------------------------------------------------------------------
Classifications == {"internal", "confidential", "restricted"}

\* faulty variant: an unknown classification is accepted silently
getSecurityControlsNeverThrows(classification) == FALSE

\* getSecurityControls fails with UnknownClassification
getSecurityControlsThrows(classification) == classification \notin Classifications

\* faulty variant: signing is required without the second validation
getSecurityControlsSigningOnly(classification) ==
    [accessRestriction |-> TRUE,
     informationTransfer |-> classification = "confidential",
     electronicMessaging |-> classification = "restricted",
     auditLogging |-> TRUE]

getSecurityControls(classification) ==
    [accessRestriction |-> TRUE,
     informationTransfer |-> classification \in {"confidential", "restricted"},
     electronicMessaging |-> classification = "restricted",
     auditLogging |-> TRUE]

\* ------------------------------------------------------------------------
\* PDF signing service (services/email/pdfSigningService.ts)
\* ------------------------------------------------------------------------
isPdfName(name) == endsWith(toLowerCase(name), DotPdf)
isSignedName(name) == endsWith(name, SignedPdf)

\* faulty variant: an attachment that is already signed is signed again
signSingleAttachmentResign(attachment, signOk) ==
    IF ~isPdfName(attachment.name)
    THEN [originalAttachment |-> attachment, signedAttachment |-> attachment,
          wasSigned |-> FALSE, reason |-> "Not a PDF file",
          invoked |-> FALSE, threw |-> FALSE]
    ELSE IF signOk
    THEN [originalAttachment |-> attachment,
          signedAttachment |-> [name |-> replacePdfExt(attachment.name),
                                path |-> replacePdfExt(attachment.path)],
          wasSigned |-> TRUE, reason |-> "Successfully signed",
          invoked |-> TRUE, threw |-> FALSE]
    ELSE [originalAttachment |-> attachment, signedAttachment |-> attachment,
          wasSigned |-> FALSE, reason |-> "Failed to sign PDF",
          invoked |-> TRUE, threw |-> TRUE]

\* signSingleAttachment; signOk is the outcome of signPDF when it is invoked.
\* invoked: signPDF was called; threw: the function threw
signSingleAttachment(attachment, signOk) ==
    IF ~isPdfName(attachment.name)
    THEN [originalAttachment |-> attachment, signedAttachment |-> attachment,
          wasSigned |-> FALSE, reason |-> "Not a PDF file",
          invoked |-> FALSE, threw |-> FALSE]
    ELSE IF isSignedName(attachment.name)
    THEN [originalAttachment |-> attachment, signedAttachment |-> attachment,
          wasSigned |-> FALSE, reason |-> "Already signed",
          invoked |-> FALSE, threw |-> FALSE]
    ELSE IF signOk
    THEN [originalAttachment |-> attachment,
          signedAttachment |-> [name |-> replacePdfExt(attachment.name),
                                path |-> replacePdfExt(attachment.path)],
          wasSigned |-> TRUE, reason |-> "Successfully signed",
          invoked |-> TRUE, threw |-> FALSE]
    ELSE [originalAttachment |-> attachment, signedAttachment |-> attachment,
          wasSigned |-> FALSE, reason |-> "Failed to sign PDF",
          invoked |-> TRUE, threw |-> TRUE]

getSignedAttachments(signingResults) ==
    [i \in 1..Len(signingResults) |-> signingResults[i].signedAttachment]

\* validateSigningResults: TRUE when it throws 'Unsigned PDFs detected'
validateSigningResultsThrows(signingResults) ==
    \E i \in 1..Len(signingResults) :
        /\ isPdfName(signingResults[i].originalAttachment.name)
        /\ ~signingResults[i].wasSigned
        /\ ~isSignedName(signingResults[i].originalAttachment.name)

\* ------------------------------------------------------------------------
\* Requests the model draws its inputs from
\* ------------------------------------------------------------------------
AttPdf == [name |-> <<"a", ".", "p", "d", "f">>,
           path |-> <<"/", "a", ".", "p", "d", "f">>]
AttUpper == [name |-> <<"b", ".", "P", "D", "F">>,
             path |-> <<"/", "b", ".", "P", "D", "F">>]
AttSigned == [name |-> <<"c">> \o SignedPdf, path |-> <<"/", "c">> \o SignedPdf]
AttTxt == [name |-> <<"n", ".", "t", "x", "t">>,
           path |-> <<"/", "n", ".", "t", "x", "t">>]

AttachmentLists ==
    {NoAttachments,
     Attachments(<<>>),
     Attachments(<<AttPdf>>),
     Attachments(<<AttTxt, AttPdf>>),
     Attachments(<<AttSigned, AttUpper>>),
     Attachments(<<AttPdf, AttUpper>>)}

Body(to, body, attachments, classification) ==
    [to |-> to, subject |-> SubjectS, body |-> body,
     attachments |-> attachments, classification |-> classification,
     from |-> <<>>, importance |-> <<>>]

\* a body that also names the sender and the importance of the message (both
\* optional: << >> when absent)
WithSender(payload, from, importance) ==
    [payload EXCEPT !.from = <<from>>, !.importance = <<importance>>]

\* a classification outside the enum
UnknownClassification == "public"

\* req.body of POST /send-with-consent: every attachment list under
\* restricted, the consented content under every classification, a tampered
\* body, a malformed recipient and an unknown classification
ConsentedAttachments == Attachments(<<AttPdf>>)

RequestBodies ==
    {Body(EmailA, BodyB, a, "restricted") : a \in AttachmentLists}
    \cup {Body(EmailA, b, ConsentedAttachments, c) :
             b \in {BodyB, BodyB2}, c \in Classifications \cup {NoValue}}
    \cup {Body(NotAnEmail, BodyB, ConsentedAttachments, "confidential")}
    \cup {Body(EmailA, BodyB, ConsentedAttachments, UnknownClassification)}
    \cup {WithSender(Body(EmailA, BodyB, ConsentedAttachments, c), EmailB, "high") :
             c \in {"internal", "restricted"}}

\* email_payload of POST /gdpr/generate-token
IssuePayloads == {Body(EmailA, BodyB, ConsentedAttachments, NoValue)}

\* the payload of an issued consent after the signing step has rewritten it
SignedPayload(payload) ==
    [payload EXCEPT !.attachments.items =
        [i \in 1..Len(payload.attachments.items) |->
            signSingleAttachment(payload.attachments.items[i], TRUE).signedAttachment]]

OriginalHashes == {generatePayloadHash(EmailPayloadSchemaData(p)) : p \in IssuePayloads}
SignedHashes ==
    {generatePayloadHash(EmailPayloadSchemaData(SignedPayload(p))) : p \in IssuePayloads}
OtherHash == generatePayloadHash(EmailPayloadSchemaData(Body(EmailA, BodyB2, NoAttachments, NoValue)))

\* the recipient and purpose of the token requests
IssueRequests ==
    {<<EmailA, "email_notification">>, <<EmailB, "email_notification">>,
     <<EmailA, "marketing">>}

IssuedTokens == {Token(n) : n \in 1..(nextToken - 1)}

\* ------------------------------------------------------------------------
\* Initial state
\* ------------------------------------------------------------------------
EmptyBody == Body(<<>>, <<>>, NoAttachments, NoValue)
NoValidation == [allowed |-> FALSE, reason |-> NoValue, hash |-> <<>>]

IdleRun ==
    [pc |-> "idle",
     body |-> EmptyBody,
     gdpr_token |-> NoToken,
     classification |-> NoValue,
     firstValidation |-> NoValidation,
     secondValidation |-> NoValidation,
     finalPayload |-> EmptyBody,
     idx |-> 0,
     signingResults |-> <<>>,
     pdpCalls |-> 0,
     signCalls |-> <<>>,
     events |-> <<>>,
     delivered |-> <<>>,
     status |-> 0]

\* no call of generatePayloadHash under observation
NoHashing == [p |-> JStr(<<>>), q |-> JStr(<<>>), out |-> <<>>]

Init ==
    /\ pdpModule \in {"bypass", "production"}
    /\ consents = << >>
    /\ nextToken = 1
    /\ now = 0
    /\ lastValidation = <<>>
    /\ run = IdleRun
    /\ hashed = NoHashing

\* no request handler is running: the ABAC send is not started or is suspended
\* in the call to the mail service, and no response is being written
Quiescent == run.pc \in {"idle", "sending"} /\ lastValidation = <<>>

\* ------------------------------------------------------------------------
\* Token routes and store operations
\* ------------------------------------------------------------------------
RouteDefaultHours == 24
RouteMinHours == 1
RouteMaxHours == 168

\* POST /gdpr/generate-token
GenerateTokenRoute(recipient_email, purpose, email_payload, hours) ==
    /\ Quiescent
    /\ nextToken <= MaxTokens
    /\ IsEmail(recipient_email)
    /\ LET request == [recipient_email |-> recipient_email,
                       purpose |-> purpose,
                       payload_hash |-> generatePayloadHash(TokenRequestPayloadData(email_payload)),
                       expires_in_hours |-> IF hours = 0 THEN RouteDefaultHours ELSE hours]
       IN  consents' = save(consents, generateToken(request, now, nextToken))
    /\ nextToken' = nextToken + 1
    /\ UNCHANGED <<hashed, pdpModule, now, lastValidation, run>>

\* POST /gdpr/generate-token with the schema's bounds on expires_in_hours
\* (0 stands for an absent value) on a server whose zone changes its offset by
\* offsetChange before the expiry; a request the schema rejects is answered
\* with 400 and changes nothing
GenerateTokenRouteInZone(recipient_email, purpose, email_payload, hours, offsetChange) ==
    /\ Quiescent
    /\ nextToken <= MaxTokens
    /\ IsEmail(recipient_email)
    /\ hours = 0 \/ (hours >= RouteMinHours /\ hours <= RouteMaxHours)
    /\ LET request == [recipient_email |-> recipient_email,
                       purpose |-> purpose,
                       payload_hash |-> generatePayloadHash(TokenRequestPayloadData(email_payload)),
                       expires_in_hours |-> IF hours = 0 THEN RouteDefaultHours ELSE hours]
       IN  consents' = save(consents, generateTokenInZone(request, now, nextToken, offsetChange))
    /\ nextToken' = nextToken + 1
    /\ UNCHANGED <<hashed, pdpModule, now, lastValidation, run>>

\* GDPRTokenService.updateSignedHash
UpdateSignedHash(token, signed_hash) ==
    /\ Quiescent
    /\ consents' = storeUpdateSignedHash(consents, token, signed_hash).store
    /\ consents' # consents
    /\ UNCHANGED <<hashed, pdpModule, nextToken, now, lastValidation, run>>

\* the hourly timer of startCleanupTimer
CleanupTimer ==
    /\ Quiescent
    /\ consents' = cleanup(consents, now)
    /\ consents' # consents
    /\ UNCHANGED <<hashed, pdpModule, nextToken, now, lastValidation, run>>

\* time passes
Tick ==
    /\ run.pc # "done" /\ lastValidation = <<>>
    /\ now < MaxTime
    /\ now' = now + 1
    /\ UNCHANGED <<hashed, pdpModule, consents, nextToken, lastValidation, run>>

\* GET /gdpr/validate-token/:token
ValidateTokenRoute(token, payload_hash, recipient_email, purpose, dt) ==
    /\ Quiescent
    /\ now + dt <= MaxTime
    /\ LET request == [token |-> token, payload_hash |-> payload_hash,
                       recipient_email |-> recipient_email, purpose |-> purpose]
           v == validateToken(consents, request, now, now + dt)
       IN  /\ consents' = v.store
           /\ lastValidation' = << [request |-> request, t1 |-> now, t2 |-> now + dt,
                                    before |-> consents, result |-> v.result] >>
    /\ now' = now + dt
    /\ UNCHANGED <<hashed, pdpModule, nextToken, run>>

\* ------------------------------------------------------------------------
\* ABAC send controller (controllers/email/abacSend.ts)
\* ------------------------------------------------------------------------
Finish(r, status) == [r EXCEPT !.pc = "done", !.status = status]

\* faulty variant: the second validation is placed before the signing step
AfterFirstValidationReordered(controls) ==
    IF controls.informationTransfer THEN "second_validation"
    ELSE IF controls.electronicMessaging THEN "signing"
    ELSE "deliver"

\* the step that follows an allowed first validation
AfterFirstValidation(controls) ==
    IF controls.electronicMessaging THEN "signing"
    ELSE IF controls.informationTransfer THEN "second_validation"
    ELSE "deliver"

\* faulty variant: the second validation is skipped after signing
AfterSigningNoRevalidation(controls) == "deliver"

\* the step that follows the signing step
AfterSigning(controls) ==
    IF controls.informationTransfer THEN "second_validation" ELSE "deliver"

\* faulty variant: the denial is logged but the handler does not return
AfterSecondValidationNoReturn(r, allowed) ==
    [r EXCEPT !.events = Append(@, IF allowed THEN "second_validation_allowed"
                                              ELSE "second_validation_denied"),
              !.pc = "deliver"]

\* the branch of abacSend on the outcome of the second validation
AfterSecondValidation(r, allowed) ==
    IF ~allowed
    THEN Finish([r EXCEPT !.events = Append(@, "second_validation_denied")], 403)
    ELSE [r EXCEPT !.events = Append(@, "second_validation_allowed"), !.pc = "deliver"]

\* faulty variant: a request without classification is handled as internal
requestClassificationInternal(body) ==
    IF body.classification = NoValue THEN "internal" ELSE body.classification

\* req.body?.classification || 'restricted'
requestClassification(body) ==
    IF body.classification = NoValue THEN "restricted" ELSE body.classification

\* POST /send-with-consent, from the entry of abacSend to the end of the first
\* validation
AbacSend(body, gdpr_token, dt) ==
    /\ run.pc = "idle"
    /\ now + dt <= MaxTime
    /\ LET classification == requestClassification(body)
           r0 == [IdleRun EXCEPT !.body = body,
                                 !.gdpr_token = gdpr_token,
                                 !.classification = classification,
                                 !.finalPayload = body,
                                 !.signCalls = [i \in 1..Len(body.attachments.items) |-> 0]]
       IN  IF gdpr_token = NoToken
           THEN /\ run' = Finish(r0, 400)
                /\ UNCHANGED <<consents, now>>
           ELSE IF getSecurityControlsThrows(classification)
           THEN \* thrown outside the try block: the handler ends without a response
                /\ run' = Finish([r0 EXCEPT !.events = <<"unknown_classification">>], 0)
                /\ UNCHANGED <<consents, now>>
           ELSE LET controls == getSecurityControls(classification)
                    v == enforceEmailPolicy(pdpModule, consents, body, gdpr_token,
                                            now, now + dt)
                    validation == [allowed |-> v.allowed, reason |-> v.reason, hash |-> v.hash]
                    r1 == [r0 EXCEPT !.firstValidation = validation,
                                     !.secondValidation = validation,
                                     !.pdpCalls = v.pdpCalls]
                IN  /\ consents' = v.store
                    /\ now' = now + dt
                    /\ run' = IF ~v.allowed
                              THEN Finish([r1 EXCEPT !.events = <<"first_validation_denied">>], 403)
                              ELSE [r1 EXCEPT !.events = <<"first_validation_allowed">>,
                                              !.idx = 1,
                                              !.pc = AfterFirstValidation(controls)]
    /\ UNCHANGED <<hashed, pdpModule, nextToken, lastValidation>>

\* one iteration of the loop of signPDFAttachments
SignAttachment(signOk) ==
    /\ run.pc = "signing"
    /\ run.idx <= Len(run.body.attachments.items)
    /\ LET result == signSingleAttachment(run.body.attachments.items[run.idx], signOk)
           called == [run EXCEPT !.signCalls[run.idx] =
                                     IF result.invoked THEN @ + 1 ELSE @]
       IN  run' = IF result.threw
                  THEN Finish([called EXCEPT !.events = @ \o <<"sign_start", "sign_failed">>], 500)
                  ELSE [called EXCEPT !.signingResults = Append(@, result),
                                      !.idx = @ + 1,
                                      !.events = IF result.invoked
                                                 THEN @ \o <<"sign_start", "sign_end">>
                                                 ELSE @]
    /\ UNCHANGED <<hashed, pdpModule, consents, nextToken, now, lastValidation>>

\* the end of createPayloadWithSignedPDFs and the return to abacSend
FinishSigning ==
    /\ run.pc = "signing"
    /\ run.idx > Len(run.body.attachments.items)
    /\ LET controls == getSecurityControls(run.classification)
           next == AfterSigning(controls)
       IN  run' = IF ~run.body.attachments.present \/ Len(run.body.attachments.items) = 0
                  THEN [run EXCEPT !.pc = next, !.events = Append(@, "signing_done")]
                  ELSE IF validateSigningResultsThrows(run.signingResults)
                  THEN Finish([run EXCEPT !.events = Append(@, "signing_invalid")], 500)
                  ELSE [run EXCEPT !.pc = next,
                                   !.events = Append(@, "signing_done"),
                                   !.finalPayload.attachments =
                                       Attachments(getSignedAttachments(run.signingResults))]
    /\ UNCHANGED <<hashed, pdpModule, consents, nextToken, now, lastValidation>>

\* the second validation of abacSend
SecondValidation(dt) ==
    /\ run.pc = "second_validation"
    /\ now + dt <= MaxTime
    /\ LET v == enforceEmailPolicy(pdpModule, consents, run.finalPayload, run.gdpr_token,
                                   now, now + dt)
           validation == [allowed |-> v.allowed, reason |-> v.reason, hash |-> v.hash]
           r1 == [run EXCEPT !.secondValidation = validation,
                             !.pdpCalls = @ + v.pdpCalls]
       IN  /\ consents' = v.store
           /\ run' = AfterSecondValidation(r1, v.allowed)
    /\ now' = now + dt
    /\ UNCHANGED <<hashed, pdpModule, nextToken, lastValidation>>

\* the call of sendEmailWithConfig
Deliver ==
    /\ run.pc = "deliver"
    /\ run' = [run EXCEPT !.pc = "sending",
                          !.events = Append(@, "deliver"),
                          !.delivered = Append(@, [run.finalPayload EXCEPT
                                                     !.classification = run.classification])]
    /\ UNCHANGED <<hashed, pdpModule, consents, nextToken, now, lastValidation>>

\* sendEmailWithConfig returns or throws
SendReturn(sent) ==
    /\ run.pc = "sending"
    /\ run' = Finish(run, IF sent THEN 200 ELSE 500)
    /\ UNCHANGED <<hashed, pdpModule, consents, nextToken, now, lastValidation>>

\* the validations object of the 200 response
responseValidations(r) ==
    [first_hash |-> r.firstValidation.hash,
     second_hash |-> r.secondValidation.hash,
     both_passed |-> TRUE,
     double_validation_applied |-> getSecurityControls(r.classification).informationTransfer]

\* the response has been sent and the handler has returned
EndRequest ==
    /\ run.pc = "done" \/ lastValidation # <<>>
    /\ run' = IF run.pc = "done" THEN IdleRun ELSE run
    /\ lastValidation' = <<>>
    /\ UNCHANGED <<hashed, pdpModule, consents, nextToken, now>>

\* ------------------------------------------------------------------------
\* Specifications
\* ------------------------------------------------------------------------
\* the ABAC send pipeline over a store that the token routes fill
Next ==
    \/ \E c \in IssueRequests, b \in IssuePayloads :
           GenerateTokenRoute(c[1], c[2], b, 1)
    \/ \E t \in IssuedTokens, h \in SignedHashes : UpdateSignedHash(t, h)
    \/ CleanupTimer
    \/ Tick
    \/ \E b \in RequestBodies, t \in IssuedTokens, dt \in {0, 1} : AbacSend(b, t, dt)
    \/ \E b \in IssuePayloads, t \in {UnknownToken, NoToken} : AbacSend(b, t, 0)
    \/ \E ok \in BOOLEAN : SignAttachment(ok)
    \/ FinishSigning
    \/ \E dt \in {0, 1} : SecondValidation(dt)
    \/ Deliver
    \/ \E ok \in BOOLEAN : SendReturn(ok)
    \/ EndRequest

Spec == Init /\ [][Next]_vars

\* the token service called through its routes
ServiceNext ==
    \/ \E p \in Purposes, b \in IssuePayloads, h \in {0, 1} :
           GenerateTokenRoute(EmailA, p, b, h)
    \/ \E t \in IssuedTokens, h \in SignedHashes \cup {OtherHash} : UpdateSignedHash(t, h)
    \/ CleanupTimer
    \/ Tick
    \/ \E t \in IssuedTokens \cup {UnknownToken},
          h \in OriginalHashes \cup SignedHashes \cup {OtherHash},
          e \in {EmailA, EmailB}, p \in Purposes \cup {NoValue}, dt \in {0, 1} :
           ValidateTokenRoute(t, h, e, p, dt)
    \/ EndRequest

\* the ABAC send pipeline replayed with tokens issued for its recipient and
\* purpose, over a store whose signed hashes may be registered again
ReplayNext ==
    \/ \E b \in IssuePayloads : GenerateTokenRoute(EmailA, "email_notification", b, 1)
    \/ \E t \in IssuedTokens, h \in SignedHashes \cup {OtherHash} : UpdateSignedHash(t, h)
    \/ CleanupTimer
    \/ Tick
    \/ \E b \in RequestBodies, t \in IssuedTokens, dt \in {0, 1} : AbacSend(b, t, dt)
    \/ \E ok \in BOOLEAN : SignAttachment(ok)
    \/ FinishSigning
    \/ \E dt \in {0, 1} : SecondValidation(dt)
    \/ Deliver
    \/ \E ok \in BOOLEAN : SendReturn(ok)
    \/ EndRequest

SpecReplay == Init /\ [][ReplayNext]_vars

\* payloads of the hash utility: nested objects and arrays over the payload
\* keys, with the keys of every object in either insertion order
HashLeaves == {JStr(<<"x">>), JStr(<<"y">>)}

BothOrders(pair1, pair2) == {<<pair1, pair2>>, <<pair2, pair1>>}

HashAttachments ==
    UNION {BothOrders(<<"name", n>>, <<"path", JStr(<<"x">>)>>) : n \in HashLeaves}

HashArrays ==
    {<<JObj(a)>> : a \in HashAttachments}
    \cup {<<JObj(a), JObj(b)>> : a \in HashAttachments, b \in HashAttachments}

HashPayloads ==
    {JObj(pairs) : pairs \in UNION {BothOrders(<<"to", t>>, <<"attachments", JArr(arr)>>) :
                                        t \in HashLeaves, arr \in HashArrays}}

InitHash ==
    /\ pdpModule = "production"
    /\ consents = << >>
    /\ nextToken = 1
    /\ now = 0
    /\ lastValidation = <<>>
    /\ run = IdleRun
    /\ hashed \in {[p |-> p, q |-> q, out |-> <<>>] : p \in HashPayloads, q \in HashPayloads}

\* generatePayloadHash is applied to both payloads
HashPayloadPair ==
    /\ hashed.out = <<>>
    /\ hashed.p # NoHashing.p
    /\ hashed' = [hashed EXCEPT !.out = <<[canonical |-> sortObjectRecursively(hashed.p),
                                           hash |-> generatePayloadHash(hashed.p)],
                                          [canonical |-> sortObjectRecursively(hashed.q),
                                           hash |-> generatePayloadHash(hashed.q)]>>]
    /\ UNCHANGED <<pdpModule, consents, nextToken, now, lastValidation, run>>

HashNext == HashPayloadPair

SpecHash == InitHash /\ [][HashNext]_vars

\* the token routes do not go through the PDP module
InitService == Init /\ pdpModule = "production"

SpecService == InitService /\ [][ServiceNext]_vars

\* the change of the UTC offset between an issuance and its expiry
OffsetChanges == {-1, 0, 1}

\* values of expires_in_hours in a request (0: absent)
RequestedHours == {0, 1, RouteMaxHours, RouteMaxHours + 1}

\* sequences of issuance operations, the clock and the cleanup timer
IssueNext ==
    \/ \E p \in Purposes, b \in IssuePayloads, h \in RequestedHours, c \in OffsetChanges :
           GenerateTokenRouteInZone(EmailA, p, b, h, c)
    \/ CleanupTimer
    \/ Tick

SpecIssue == InitService /\ [][IssueNext]_vars

\* payloads that both schemas accept: the consented content without and with
\* a classification field
ClassifiedPayloads ==
    {Body(EmailA, BodyB, ConsentedAttachments, c) :
         c \in {NoValue, "internal", "confidential"}}

\* a consent issued for a payload and requests sent with such payloads
ConsentNext ==
    \/ \E b \in ClassifiedPayloads : GenerateTokenRoute(EmailA, "email_notification", b, 1)
    \/ Tick
    \/ \E b \in ClassifiedPayloads, t \in IssuedTokens, dt \in {0, 1} : AbacSend(b, t, dt)
    \/ \E ok \in BOOLEAN : SignAttachment(ok)
    \/ FinishSigning
    \/ \E dt \in {0, 1} : SecondValidation(dt)
    \/ Deliver
    \/ \E ok \in BOOLEAN : SendReturn(ok)
    \/ EndRequest

SpecConsent == Init /\ [][ConsentNext]_vars

\* the records generateToken can have stored for token n by the time t
StoredRecords(n, t) ==
    {generateToken([recipient_email |-> EmailA,
                    purpose |-> "email_notification",
                    payload_hash |-> generatePayloadHash(TokenRequestPayloadData(b)),
                    expires_in_hours |-> h],
                   created, n) :
         b \in IssuePayloads, h \in {0, 1}, created \in 0..t}

\* a store of StoreSize records issued earlier and not cleaned up since
InitStore ==
    /\ pdpModule = "production"
    /\ now \in 0..MaxTime
    /\ consents \in {store \in [{Token(n) : n \in 1..StoreSize} ->
                                  UNION {StoredRecords(n, now) : n \in 1..StoreSize}] :
                         \A n \in 1..StoreSize : store[Token(n)].token = Token(n)}
    /\ nextToken = StoreSize + 1
    /\ lastValidation = <<>>
    /\ run = IdleRun
    /\ hashed = NoHashing

\* cleanup() called by the timer on such a store while time passes
StoreNext == CleanupTimer \/ Tick

SpecStore == InitStore /\ [][StoreNext]_vars

\* ------------------------------------------------------------------------
\* Properties
\* ------------------------------------------------------------------------
Ev == run.events
HasEvent(e) == \E i \in 1..Len(Ev) : Ev[i] = e
Before(i, e) == \E j \in 1..(i - 1) : Ev[j] = e
CountBefore(i, e) == Cardinality({j \in 1..(i - 1) : Ev[j] = e})
FirstValidationDone ==
    /\ run.pc # "idle"
    /\ run.gdpr_token # NoToken
    /\ ~HasEvent("unknown_classification")
NeedsSigning == run.classification = "restricted"
NeedsSecondValidation == run.classification \in {"confidential", "restricted"}

\* C1: a request whose token holds a live consent issued for payload P, and
\* whose body text differs from P's, is denied by the first validation with
\* the hash-mismatch reason and rejected, under every classification.
C1_TamperedBodyDenied ==
    [][(/\ run.pc = "idle" /\ run'.pc # "idle"
        /\ has(consents, run'.gdpr_token)
        /\ \E P \in IssuePayloads :
              LET rec == consents[run'.gdpr_token]
              IN  /\ rec.original_hash = generatePayloadHash(TokenRequestPayloadData(P))
                  /\ rec.subject = P.to
                  /\ rec.purpose = "email_notification"
                  /\ ~isExpired(rec, now')
                  /\ run'.body.body # P.body
                  /\ [run'.body EXCEPT !.body = P.body, !.classification = NoValue] = P)
       => (/\ ~run'.firstValidation.allowed
           /\ run'.firstValidation.reason = ReasonHashMismatch
           /\ run'.pc = "done"
           /\ run'.status = 403)]_vars

\* C2: the steps of a run occur only in the order first validation, signing
\* (restricted only), second validation (confidential and restricted only),
\* delivery: signing starts only after the first validation has allowed, the
\* second validation only after every attachment has been through the signing
\* step, delivery only after the last required validation has allowed.
C2_StepOrder ==
    \A i \in 1..Len(Ev) :
        /\ Ev[i] \in {"first_validation_allowed", "first_validation_denied"} => i = 1
        /\ i > 1 => Ev[1] = "first_validation_allowed"
        /\ Ev[i] \in {"sign_start", "sign_end", "sign_failed", "signing_done"} =>
              /\ NeedsSigning
              /\ ~Before(i, "second_validation_allowed")
              /\ ~Before(i, "second_validation_denied")
              /\ ~Before(i, "deliver")
        /\ Ev[i] \in {"second_validation_allowed", "second_validation_denied"} =>
              /\ NeedsSecondValidation
              /\ NeedsSigning =>
                    /\ Before(i, "signing_done")
                    /\ CountBefore(i, "sign_start") = CountBefore(i, "sign_end")
                    /\ Len(run.signingResults) = Len(run.body.attachments.items)
              /\ ~Before(i, "deliver")
        /\ Ev[i] = "deliver" =>
              /\ i = Len(Ev)
              /\ NeedsSigning => Before(i, "signing_done")
              /\ NeedsSecondValidation => Before(i, "second_validation_allowed")

C2_Witness ==
    /\ NeedsSigning
    /\ HasEvent("sign_end")
    /\ HasEvent("second_validation_allowed")
    /\ HasEvent("deliver")

\* C3: a run that is rejected (schema invalid, first validation denied,
\* signing failed, second validation denied) never invokes delivery.
Rejected ==
    \/ FirstValidationDone /\ ~run.firstValidation.allowed
    \/ HasEvent("sign_failed")
    \/ HasEvent("signing_invalid")
    \/ HasEvent("second_validation_denied")

C3_RejectedNeverDelivers ==
    Rejected => run.delivered = <<>> /\ ~HasEvent("deliver") /\ run.pc = "done"

C3_Witness ==
    /\ HasEvent("second_validation_denied")
    /\ run.pc = "done"
    /\ run.status = 403

\* C4: when the schema validation of the payload fails the run is rejected
\* without any PDP call and without a payload hash.
C4_SchemaFailureSkipsPdp ==
    (FirstValidationDone /\ ~EmailPayloadSchemaOk(run.body)) =>
        /\ run.pc = "done"
        /\ run.status = 403
        /\ run.firstValidation.reason = ReasonSchema
        /\ run.firstValidation.hash = <<>>
        /\ run.pdpCalls = 0

C4_Witness ==
    /\ FirstValidationDone
    /\ ~EmailPayloadSchemaOk(run.body)
    /\ run.firstValidation.reason = ReasonSchema

LastRequest == lastValidation[1].request
LastRecord == lastValidation[1].before[LastRequest.token]
LastResult == lastValidation[1].result
LastHashMatches ==
    \/ LastRecord.original_hash = LastRequest.payload_hash
    \/ LastRecord.signed_hash = <<LastRequest.payload_hash>>

\* C5: the PDP checks token exists, hash matches, not expired, subject,
\* purpose, in this order, and reports the earliest failing check: a request
\* whose token has a stored record and whose hash matches neither stored hash
\* is denied for the hash mismatch, whatever else fails (in particular when
\* the record is also expired).
C5_HashMismatchReportedFirst ==
    (/\ lastValidation # <<>>
     /\ has(lastValidation[1].before, LastRequest.token)
     /\ ~LastHashMatches)
    => (~LastResult.valid /\ LastResult.reason = ReasonHashMismatch)

\* C6: for a stored record whose hash, subject and purpose match the request,
\* the PDP denies with the expired reason when expires_at is earlier than now,
\* and allows when expires_at is later than now.
C6_ExpiryBoundary ==
    (/\ lastValidation # <<>>
     /\ has(lastValidation[1].before, LastRequest.token)
     /\ LastHashMatches
     /\ LastRecord.subject = LastRequest.recipient_email
     /\ LastRecord.purpose = LastRequest.purpose)
    => /\ LastRecord.expires_at < lastValidation[1].t1 =>
              (~LastResult.valid /\ LastResult.reason = ReasonExpired)
       /\ LastRecord.expires_at > lastValidation[1].t2 => LastResult.valid

\* C7: a token validated right after generateToken issued it against hash H,
\* with the recipient and purpose it was issued for, is allowed with H and
\* denied with the hash-mismatch reason with any other hash.
JustIssued ==
    /\ lastValidation # <<>>
    /\ has(lastValidation[1].before, LastRequest.token)
    /\ LastRecord.created_at = lastValidation[1].t1
    /\ LastRecord.signed_hash = NoHash
    /\ LastRecord.subject = LastRequest.recipient_email
    /\ LastRecord.purpose = LastRequest.purpose

C7_RoundTrip ==
    JustIssued =>
        IF LastRequest.payload_hash = LastRecord.original_hash
        THEN LastResult.valid
        ELSE ~LastResult.valid /\ LastResult.reason = ReasonHashMismatch

C7_Witness ==
    /\ JustIssued
    /\ LastRequest.payload_hash = LastRecord.original_hash
    /\ LastResult.valid
    /\ LastResult.hash_type = "original"

\* C8 as claimed: a finished run whose first validation passed has called the
\* PDP once when internal and twice when confidential or restricted.
C8_PdpCallsAsClaimed ==
    (run.pc = "done" /\ FirstValidationDone /\ run.firstValidation.allowed) =>
        run.pdpCalls = IF NeedsSecondValidation THEN 2 ELSE 1

\* C8: a finished run whose first validation passed has called the PDP once
\* when internal, twice when confidential, and when restricted twice unless
\* its signing step failed, in which case once.
SigningFailed == HasEvent("sign_failed") \/ HasEvent("signing_invalid")

C8_PdpCalls ==
    (run.pc = "done" /\ FirstValidationDone /\ run.firstValidation.allowed) =>
        run.pdpCalls = IF NeedsSecondValidation /\ ~SigningFailed THEN 2 ELSE 1

C8_Witness ==
    /\ run.pc = "done"
    /\ run.status = 200
    /\ run.classification = "restricted"
    /\ HasEvent("sign_end")
    /\ run.pdpCalls = 2

IsPdfAttachment(a) == endsWith(toLowerCase(a.name), DotPdf)
BearsSignedSuffix(a) == endsWith(a.name, SignedPdf)
UnsignedPdf(i) ==
    /\ IsPdfAttachment(run.body.attachments.items[i])
    /\ ~BearsSignedSuffix(run.body.attachments.items[i])

\* C9 as claimed, for the runs that got as far as the signing step: every
\* finished restricted run whose first validation passed has invoked signPDF
\* once for each unsigned PDF attachment and never for any other attachment.
C9_SignCallsAsClaimed ==
    (run.pc = "done" /\ NeedsSigning /\ HasEvent("first_validation_allowed")) =>
        \A i \in 1..Len(run.signCalls) :
            run.signCalls[i] = IF UnsignedPdf(i) THEN 1 ELSE 0

\* C9: in a restricted run signPDF is never invoked for a non-PDF or an
\* already signed attachment and at most once for an unsigned PDF; once the
\* signing step has completed (the first validation passed and no signing
\* call failed) it has been invoked exactly once for each unsigned PDF.
C9_SignCalls ==
    NeedsSigning =>
        \A i \in 1..Len(run.signCalls) :
            /\ ~UnsignedPdf(i) => run.signCalls[i] = 0
            /\ run.signCalls[i] <= 1
            /\ HasEvent("signing_done") => run.signCalls[i] = IF UnsignedPdf(i) THEN 1 ELSE 0

C9_Witness ==
    /\ NeedsSigning
    /\ HasEvent("signing_done")
    /\ \E i \in 1..Len(run.signCalls) : UnsignedPdf(i) /\ run.signCalls[i] = 1
    /\ \E i \in 1..Len(run.signCalls) : ~UnsignedPdf(i) /\ run.signCalls[i] = 0

\* C10: every PDF attachment of a payload that a restricted run hands to
\* delivery bears the signed suffix; when the signing of an attachment fails
\* the run is rejected, no second validation is made and nothing is delivered.
C10_SignedOrRejected ==
    NeedsSigning =>
        /\ \A d \in 1..Len(run.delivered) :
              \A i \in 1..Len(run.delivered[d].attachments.items) :
                  IsPdfAttachment(run.delivered[d].attachments.items[i])
                      => BearsSignedSuffix(run.delivered[d].attachments.items[i])
        /\ HasEvent("sign_failed") =>
              /\ run.pc = "done"
              /\ run.status = 500
              /\ ~HasEvent("second_validation_allowed")
              /\ ~HasEvent("second_validation_denied")
              /\ run.pdpCalls = 1
              /\ run.delivered = <<>>

C10_Witness ==
    /\ NeedsSigning
    /\ Len(run.delivered) = 1
    /\ \E i \in 1..Len(run.body.attachments.items) :
          /\ run.body.attachments.items[i] = AttUpper
          /\ BearsSignedSuffix(run.delivered[1].attachments.items[i])

\* C11: the signing step is idempotent: an attachment already bearing the
\* signed suffix is returned unchanged without a call of signPDF, and signing
\* the attachment list that a completed signing step produced calls signPDF
\* for none of its attachments and returns each of them unchanged.
C11_SigningIdempotent ==
    /\ \A i \in 1..Len(run.signingResults) :
          BearsSignedSuffix(run.signingResults[i].originalAttachment) =>
              /\ run.signingResults[i].signedAttachment
                     = run.signingResults[i].originalAttachment
              /\ run.signCalls[i] = 0
    /\ HasEvent("signing_done") =>
          \A i \in 1..Len(run.finalPayload.attachments.items) : \A ok \in BOOLEAN :
              LET again == signSingleAttachment(run.finalPayload.attachments.items[i], ok)
              IN  /\ ~again.invoked
                  /\ ~again.wasSigned
                  /\ again.signedAttachment = run.finalPayload.attachments.items[i]

C11_Witness ==
    /\ HasEvent("signing_done")
    /\ \E i \in 1..Len(run.signingResults) :
          /\ run.signingResults[i].originalAttachment = AttUpper
          /\ run.signingResults[i].wasSigned
          /\ run.finalPayload.attachments.items[i] # AttUpper
    /\ \E i \in 1..Len(run.signingResults) :
          /\ run.signingResults[i].originalAttachment = AttSigned
          /\ run.finalPayload.attachments.items[i] = AttSigned

\* the stored record of the run's token is unexpired and was issued for exactly
\* the submitted payload, its recipient and the purpose of the PEP
ConsentMatchesRun ==
    /\ has(consents, run.gdpr_token)
    /\ consents[run.gdpr_token].original_hash
           = generatePayloadHash(EmailPayloadSchemaData(run.body))
    /\ consents[run.gdpr_token].subject = run.body.to
    /\ consents[run.gdpr_token].purpose = "email_notification"
    /\ consents[run.gdpr_token].expires_at >= now

\* C12: an internal run whose token was issued for the fingerprint of exactly
\* the submitted payload is approved by its first validation, performs no
\* second validation, and its outcome carries no second_hash.
C12_InternalSingleValidation ==
    (run.classification = "internal" /\ FirstValidationDone) =>
        /\ ConsentMatchesRun => run.firstValidation.allowed
        /\ ~HasEvent("second_validation_allowed")
        /\ ~HasEvent("second_validation_denied")
        /\ run.pdpCalls = 1
        /\ (run.pc = "done" /\ run.status = 200) =>
               responseValidations(run).second_hash = <<>>

\* the run is restricted and carries exactly one attachment, an unsigned PDF
OneUnsignedPdf ==
    /\ NeedsSigning
    /\ Len(run.body.attachments.items) = 1
    /\ UnsignedPdf(1)

\* the record of the run's token has the fingerprint of the payload with the
\* rewritten attachment registered as its signed_hash
SignedHashRegistered ==
    /\ has(consents, run.gdpr_token)
    /\ consents[run.gdpr_token].signed_hash
           = <<generatePayloadHash(EmailPayloadSchemaData(SignedPayload(run.body)))>>

\* C13: a restricted run with one unsigned PDF attachment, whose token was
\* issued for the submitted payload and has the fingerprint of the payload
\* with the rewritten attachment registered as signed_hash, passes the first
\* validation on the original hash, signs the attachment, passes the second
\* validation on the signed hash and is handed to delivery (unless signPDF
\* itself fails).
C13_RestrictedSignedHash ==
    (OneUnsignedPdf /\ FirstValidationDone /\ ConsentMatchesRun /\ SignedHashRegistered) =>
        /\ run.firstValidation.allowed
        /\ run.firstValidation.hash = <<consents[run.gdpr_token].original_hash>>
        /\ ~HasEvent("second_validation_denied")
        /\ HasEvent("second_validation_allowed") =>
               /\ HasEvent("sign_end")
               /\ run.signCalls[1] = 1
               /\ run.secondValidation.hash = consents[run.gdpr_token].signed_hash
               /\ run.secondValidation.hash # run.firstValidation.hash
        /\ (run.pc = "done" /\ ~SigningFailed) =>
               /\ HasEvent("second_validation_allowed")
               /\ Len(run.delivered) = 1
        /\ run.pc = "done" => run.status \in {200, 500}

C13_Witness ==
    /\ pdpModule = "production"
    /\ OneUnsignedPdf /\ ConsentMatchesRun /\ SignedHashRegistered
    /\ run.pc = "done"
    /\ run.status = 200
    /\ HasEvent("second_validation_allowed")
    /\ run.secondValidation.hash = consents[run.gdpr_token].signed_hash

\* C14: a decision call leaves the Consent Store unchanged: the records and
\* their fields are the same after validateToken as before it, whether it
\* allows or denies.
C14_ValidateLeavesStoreUnchanged ==
    lastValidation # <<>> => consents = lastValidation[1].before

\* every validation of the run has allowed and the payload was handed to delivery
Approved == run.pc \in {"sending", "done"} /\ HasEvent("deliver")

\* the validations of a new run with the token and content of the current run,
\* its first validation made at tFirst and its second (when required) at tSecond
ReplayApproved(tFirst, tSecond) ==
    LET v1 == enforceEmailPolicy(pdpModule, consents, run.body, run.gdpr_token,
                                 tFirst, tFirst)
    IN  /\ v1.allowed
        /\ NeedsSecondValidation =>
               enforceEmailPolicy(pdpModule, v1.store, run.finalPayload, run.gdpr_token,
                                  tSecond, tSecond).allowed

RecordCoversRun ==
    (pdpModule = "production" /\ run.secondValidation.hash # run.firstValidation.hash) =>
        run.secondValidation.hash = consents[run.gdpr_token].signed_hash

C16_SignedHashSetOnce ==
    [][\A t \in DOMAIN consents :
          (consents[t].signed_hash # NoHash /\ t \in DOMAIN consents')
              => consents'[t].signed_hash = consents[t].signed_hash]_vars

\* C17: the resolver maps internal to accessRestriction and auditLogging,
\* confidential to those and informationTransfer, restricted to all four
\* controls; in every run a required signing implies a required second
\* validation, and the run makes the second validation after it has signed.
C17_ResolverTable ==
    /\ getSecurityControls("internal")
           = [accessRestriction |-> TRUE, informationTransfer |-> FALSE,
              electronicMessaging |-> FALSE, auditLogging |-> TRUE]
    /\ getSecurityControls("confidential")
           = [accessRestriction |-> TRUE, informationTransfer |-> TRUE,
              electronicMessaging |-> FALSE, auditLogging |-> TRUE]
    /\ getSecurityControls("restricted")
           = [accessRestriction |-> TRUE, informationTransfer |-> TRUE,
              electronicMessaging |-> TRUE, auditLogging |-> TRUE]
    /\ run.classification \in Classifications =>
           (getSecurityControls(run.classification).electronicMessaging
                => getSecurityControls(run.classification).informationTransfer)
    /\ (HasEvent("signing_done") /\ HasEvent("deliver")) =>
           HasEvent("second_validation_allowed")

C17_Witness ==
    /\ run.classification = "restricted"
    /\ HasEvent("signing_done")
    /\ HasEvent("second_validation_allowed")
    /\ HasEvent("deliver")

\* C18: a request whose classification is outside internal, confidential and
\* restricted fails with UnknownClassification: it is processed under no set
\* of controls (no validation, no signing) and never reaches delivery.
C18_UnknownClassificationFails ==
    (run.pc # "idle" /\ run.classification \notin Classifications) =>
        /\ run.pc = "done"
        /\ run.gdpr_token # NoToken => HasEvent("unknown_classification")
        /\ run.status # 200
        /\ run.pdpCalls = 0
        /\ \A i \in 1..Len(run.signCalls) : run.signCalls[i] = 0
        /\ ~HasEvent("deliver")
        /\ run.delivered = <<>>

C18_Witness ==
    /\ run.pc = "done"
    /\ run.classification = UnknownClassification
    /\ run.gdpr_token \in IssuedTokens
    /\ ConsentMatchesRun
    /\ HasEvent("unknown_classification")

\* C19: a request that carries no classification is processed as restricted:
\* it reaches delivery only after every unsigned PDF attachment has been
\* signed and the second validation has allowed.
C19_DefaultRestricted ==
    (run.pc # "idle" /\ run.body.classification = NoValue) =>
        /\ run.classification = "restricted"
        /\ HasEvent("deliver") =>
              /\ HasEvent("signing_done")
              /\ \A i \in 1..Len(run.signCalls) : UnsignedPdf(i) => run.signCalls[i] = 1
              /\ HasEvent("second_validation_allowed")
              /\ run.pdpCalls = 2
              /\ \A d \in 1..Len(run.delivered) :
                    run.delivered[d].classification = "restricted"

C19_Witness ==
    /\ run.body.classification = NoValue
    /\ run.gdpr_token \in IssuedTokens
    /\ \E i \in 1..Len(run.signCalls) : UnsignedPdf(i) /\ run.signCalls[i] = 1
    /\ HasEvent("second_validation_allowed")
    /\ Len(run.delivered) = 1

\* two JSON values differ at most in the order of the keys of their objects,
\* at any nesting level
RECURSIVE KeyOrderEquivalent(_, _)
KeyOrderEquivalent(x, y) ==
    IF x.k # y.k THEN FALSE
    ELSE IF x.k = "str" THEN x.v = y.v
    ELSE IF x.k = "arr"
    THEN /\ Len(x.v) = Len(y.v)
         /\ \A i \in 1..Len(x.v) : KeyOrderEquivalent(x.v[i], y.v[i])
    ELSE /\ Len(x.v) = Len(y.v)
         /\ \A i \in 1..Len(x.v) : \E j \in 1..Len(y.v) :
               /\ x.v[i][1] = y.v[j][1]
               /\ KeyOrderEquivalent(x.v[i][2], y.v[j][2])

\* C20: over the bounded payloads, two payloads that differ only in the order
\* of object keys (at any nesting level) have the same canonical form and the
\* same fingerprint, and two payloads that differ in a leaf value or in the
\* order of array elements have different canonical forms.
C20_CanonicalForm ==
    hashed.out # <<>> =>
        /\ KeyOrderEquivalent(hashed.p, hashed.q) =>
               /\ hashed.out[1].canonical = hashed.out[2].canonical
               /\ hashed.out[1].hash = hashed.out[2].hash
        /\ ~KeyOrderEquivalent(hashed.p, hashed.q) =>
               /\ hashed.out[1].canonical # hashed.out[2].canonical
               /\ hashed.out[1].hash # hashed.out[2].hash

C20_Witness ==
    /\ hashed.out # <<>>
    /\ hashed.p # hashed.q
    /\ hashed.p.v[1][1] # hashed.q.v[1][1]
    /\ Len(hashed.out[1].canonical.v[1][2].v) = 2
    /\ KeyOrderEquivalent(hashed.p, hashed.q)
    /\ hashed.out[1].hash = hashed.out[2].hash

\* ---------------------------------------------------------------------
\* the second validation of the run has been performed
SecondValidationRan ==
    HasEvent("second_validation_allowed") \/ HasEvent("second_validation_denied")

\* the post-signing payload as the claim describes the hashed content: the
\* schema-validated fields of finalPayload together with the classification
PostSigningDataWithClassification ==
    JObj(EmailPayloadSchemaData(run.finalPayload).v
         \o << <<"classification", JStr(<<run.classification>>)>> >>)

\* C21: when the second validation is performed, the fingerprint it checks
\* is the hash of the post-signing payload (rewritten attachment names and
\* paths) including the classification field.
C21_FingerprintCoversClassification ==
    SecondValidationRan
        => run.secondValidation.hash
             = <<generatePayloadHash(PostSigningDataWithClassification)>>

\* ---------------------------------------------------------------------
\* the pipeline with the handler resuming whenever createPayloadWithSignedPDFs
\* has a result for every attachment; the return of signPDF (SignAttachment)
\* is the signing collaborator's step, no timer of the code stands in for it,
\* and nothing is assumed about it
SpecLive == Init /\ [][Next]_vars /\ WF_vars(FinishSigning)

\* C22: every run eventually ends, approved or rejected, even when the
\* signing collaborator never responds: a run that waits for a signature
\* eventually leaves the signing stage.
C22_SigningStageEnds ==
    (run.pc = "signing") ~> (run.pc # "signing")

\* ---------------------------------------------------------------------
\* the attributes a PDP call is made with
PdpAttributes ==
    [gdpr_token : IssuedTokens \cup {UnknownToken},
     payload_hash : OriginalHashes \cup SignedHashes \cup {OtherHash},
     subject : {EmailA, EmailB},
     purpose : {"email_notification"}]

\* the decision of a PDP call made now with the given attributes
PdpDecision(attributes, dt) ==
    evaluatePolicy(pdpModule, consents, attributes, now, now + dt).decision

\* C23: every PDP decision carries a non-empty reason, and every allow
\* decision on a stored record reports hash_type original when the request
\* hash is the record's original_hash, and signed only when it is the
\* record's signed_hash and not its original_hash.
C23_DecisionReportsMatchedHash ==
    \A attributes \in PdpAttributes, dt \in {0, 1} :
        LET d == PdpDecision(attributes, dt)
            record == consents[attributes.gdpr_token]
        IN  /\ d.reason \notin {"", NoValue}
            /\ (d.allow /\ has(consents, attributes.gdpr_token))
                 => /\ (attributes.payload_hash = record.original_hash)
                          => d.hash_type = "original"
                    /\ (d.hash_type = "signed")
                          => /\ record.signed_hash = <<attributes.payload_hash>>
                             /\ attributes.payload_hash # record.original_hash

\* ---------------------------------------------------------------------
\* C24: every consent record in the store expires after its creation and at
\* most 168 hours after it.
C24_ExpiryWithinBounds ==
    \A token \in DOMAIN consents :
        /\ consents[token].expires_at > consents[token].created_at
        /\ consents[token].expires_at
             <= consents[token].created_at + RouteMaxHours * Hour

\* ---------------------------------------------------------------------
\* C25: cleanup() deletes every record whose expires_at is earlier than now
\* and no other record; every other record is still present afterwards with
\* all its fields unchanged.
C25_CleanupFrame ==
    [][CleanupTimer =>
          /\ DOMAIN consents' \subseteq DOMAIN consents
          /\ \A token \in DOMAIN consents :
                 IF consents[token].expires_at < now
                 THEN token \notin DOMAIN consents'
                 ELSE /\ token \in DOMAIN consents'
                      /\ consents'[token] = consents[token]]_vars

\* a cleanup has deleted a record and kept another one, which expires at this
\* very instant
C25_Witness ==
    /\ \E token \in {Token(n) : n \in 1..StoreSize} : ~has(consents, token)
    /\ \E token \in DOMAIN consents : consents[token].expires_at = now

\* ---------------------------------------------------------------------
\* the fields of GDPRConsentRecord that are not optional
RequiredFields ==
    {"token", "original_hash", "subject", "purpose", "created_at", "expires_at"}

\* what get(token) returns is a record as one save call stored it, with a
\* signed hash that is absent or one whole value given to updateSignedHash
CompleteRecord(token) ==
    LET record == consents[token]
    IN  /\ RequiredFields \subseteq DOMAIN record
        /\ record.token = token
        /\ record.original_hash
             \in {generatePayloadHash(TokenRequestPayloadData(b)) : b \in IssuePayloads}
        /\ record.subject \in {EmailA, EmailB}
        /\ record.purpose \in Purposes
        /\ record.created_at \in 0..now
        /\ record.expires_at > record.created_at
        /\ record.signed_hash \in {NoHash} \cup {<<h>> : h \in SignedHashes \cup {OtherHash}}

DeliveredPayload == run.delivered[Len(run.delivered)]

\* the validation whose decision the delivery rests on
LastValidation ==
    IF NeedsSecondValidation THEN run.secondValidation ELSE run.firstValidation

\* C27: when a run is approved, the delivered payload contains, apart from
\* the classification, only data covered by the fingerprint of the last
\* allowed validation: the hashed fields are the delivered ones, and no sender
\* or importance travels outside the hash.
C27_DeliveredDataIsHashed ==
    Approved
        => /\ LastValidation.allowed
           /\ LastValidation.hash
                = <<generatePayloadHash(EmailPayloadSchemaData(DeliveredPayload))>>
           /\ DeliveredPayload.from = <<>>
           /\ DeliveredPayload.importance = <<>>

\* ---------------------------------------------------------------------
\* the record of the run's token was issued for the body of the run
IssuedForRunBody ==
    /\ has(consents, run.gdpr_token)
    /\ consents[run.gdpr_token].original_hash
         = generatePayloadHash(TokenRequestPayloadData(run.body))

\* C28: for a payload that the issuance schema and the PEP schema both accept,
\* with or without a classification field, the original_hash stored at
\* issuance is the hash the PEP computes for it in the first validation.
C28_IssuedHashIsPepHash ==
    (FirstValidationDone /\ IssuedForRunBody)
        => run.firstValidation.hash = <<consents[run.gdpr_token].original_hash>>

\* ---------------------------------------------------------------------
\* the consent issued with the run's token has expired or is no longer in the
\* store
ConsentGone ==
    /\ run.gdpr_token \in {Token(n) : n \in 1..(nextToken - 1)}
    /\ \/ ~has(consents, run.gdpr_token)
       \/ consents[run.gdpr_token].expires_at < now

\* the step in which the run makes its second validation
SecondValidationStep ==
    run.pc = "second_validation" /\ run'.pc # "second_validation"

\* C29: when the consent of a confidential or restricted run has expired or
\* has been removed after its first validation passed and before its second
\* validation, the second validation denies and nothing is delivered; an
\* internal run that passed its first validation proceeds to the delivery
\* whatever happens to the store.
C29_LostConsentStopsRun ==
    /\ [][(SecondValidationStep /\ ConsentGone)
             => /\ ~run'.secondValidation.allowed
                /\ run'.pc = "done"
                /\ run'.delivered = <<>>]_vars
    /\ [](run.classification = "internal" /\ HasEvent("first_validation_allowed")
             => run.pc = "deliver" \/ HasEvent("deliver"))

\* ---------------------------------------------------------------------
\* a step in which a PDP validation of the run, first or second, allows
ValidationAllowedStep ==
    \/ /\ run.pc = "idle"
       /\ run'.pc # "idle"
       /\ \E i \in 1..Len(run'.events) : run'.events[i] = "first_validation_allowed"
    \/ /\ SecondValidationStep
       /\ run'.secondValidation.allowed

\* C30: a run is approved only if at each of its PDP validations the token
\* resolves to a stored, unexpired record whose subject is the payload's
\* recipient and whose purpose is email_notification.
C30_AllowNeedsMatchingConsent ==
    [][ValidationAllowedStep
          => /\ has(consents', run'.gdpr_token)
             /\ consents'[run'.gdpr_token].expires_at >= now'
             /\ consents'[run'.gdpr_token].subject = run'.body.to
             /\ consents'[run'.gdpr_token].purpose = "email_notification"]_vars

====
